---- MODULE Spec2Model ----
(***************************************************************************)
(* EncryptedGuessingGame: the contract's storage, its three state-changing *)
(* entry points (joinGame, submitGuess, withdraw) and the FHE / host       *)
(* primitives they call.                                                   *)
(*                                                                         *)
(* Number representation.  TLC integers are 32-bit signed, so              *)
(*   - a uint32 plaintext is a pair <<hi, lo>> of 16-bit limbs,            *)
(*   - a uint256 digest is a tuple of 16 limbs, most significant first,    *)
(*   - ether amounts are counted in gwei (1 gwei = 10^9 wei).              *)
(***************************************************************************)
EXTENDS Integers, Sequences, FiniteSets, TLC

(***************************************************************************)
(* Bounds of the model                                                     *)
(***************************************************************************)
MaxEvents == 3
InitialFunds == 2000000

(***************************************************************************)
(* Identities                                                              *)
(***************************************************************************)
ZeroAddress == "0x0"
This == "this"
Deployer == "deployer"
Users == {Deployer, "alice"}
Addresses == Users \cup {ZeroAddress}
Accounts == Users \cup {This}

(***************************************************************************)
(* uint32 arithmetic on 16-bit limbs; U32 is the cast uint32(n)            *)
(***************************************************************************)
Base == 65536
U32(n) == <<(n \div Base) % Base, n % Base>>
MaxU32 == <<Base - 1, Base - 1>>
U32Gt(a, b) == a[1] > b[1] \/ (a[1] = b[1] /\ a[2] > b[2])
U32Sub(a, b) ==
  LET lo == a[2] - b[2]
      borrow == IF lo < 0 THEN 1 ELSE 0
  IN  <<(a[1] - b[1] - borrow) % Base, lo % Base>>

(***************************************************************************)
(* uint256 digests                                                         *)
(***************************************************************************)
RECURSIVE ModLimbs(_, _, _, _)
ModLimbs(d, i, acc, m) ==
  IF i > Len(d) THEN acc ELSE ModLimbs(d, i + 1, (acc * Base + d[i]) % m, m)
Mod256(d, m) == ModLimbs(d, 1, 0, m)
DigestLow(k) == [i \in 1..16 |-> IF i = 16 THEN k ELSE 0]
DigestMax == [i \in 1..16 |-> Base - 1]
Digests == {DigestLow(20), DigestMax}
AllResidueDigests == {DigestLow(k) : k \in 0..19} \cup {DigestMax}

(***************************************************************************)
(* FHE library: a ciphertext is [h |-> handle, v |-> plaintext].           *)
(* euint32.wrap(0) is the uninitialised handle.  The handle of a trivial   *)
(* encryption is determined by its plaintext, the handle of a verified     *)
(* input by the user it was encrypted for and its content, and the handle  *)
(* of a computed value by the input handles it was computed from.          *)
(* The access-control list is a set of <<handle, identity>> grants.        *)
(***************************************************************************)
ZeroHandle == <<"zero">>
ZeroCiphertext == [h |-> ZeroHandle, v |-> U32(0)]
Leaves(h) == IF h[1] = "comp" THEN h[2] ELSE {h}
Computed(x, y) == <<"comp", Leaves(x) \cup Leaves(y)>>
FHE_asEuint32(x) == [h |-> <<"triv", x>>, v |-> x]
FHE_isInitialized(ct) == ct.h # ZeroHandle
FHE_operand(ct) == IF FHE_isInitialized(ct) THEN ct ELSE FHE_asEuint32(U32(0))
FHE_fromExternal(user, g) == [h |-> <<"in", user, g>>, v |-> g]
FHE_gt(a, b) == [h |-> Computed(a.h, b.h), v |-> U32Gt(a.v, b.v)]
FHE_eq(a, b) == [h |-> Computed(a.h, b.h), v |-> (a.v = b.v)]
FHE_sub(a, b) == [h |-> Computed(a.h, b.h), v |-> U32Sub(a.v, b.v)]
FHE_select(c, a, b) ==
  [h |-> Computed(c.h, Computed(a.h, b.h)), v |-> IF c.v THEN a.v ELSE b.v]
FHE_allow(grants, ct, who) == grants \cup {<<ct.h, who>>}
FHE_allowThis(grants, ct) == FHE_allow(grants, ct, This)
FHE_isAllowed(grants, ct, who) == <<ct.h, who>> \in grants

(***************************************************************************)
(* Contract constants and storage                                          *)
(***************************************************************************)
ENTRY_FEE == 1000000

(* _owner, _nonce, _players, _rounds: the contract's storage.               *)
(* balanceOf: the host ledger; events: the emitted-event log; acl: the FHE *)
(* access-control list.  assigned: the ciphertext returned to each player  *)
(* by its latest successful joinGame.  last: the latest call, its          *)
(* arguments as far as the execution read them, and its outcome.           *)
VARIABLES _owner, _nonce, _players, _rounds, balanceOf, events, acl, assigned, last

(* The web client (GameApp): address is the connected wallet account,      *)
(* instance whether the relayer SDK instance is loaded, ui the component's *)
(* React state, and joinTask, guessTask, decryptTask, refreshes the        *)
(* asynchronous handlers that are suspended at an await.  rendered is the  *)
(* value of isDecrypting in the render that was committed last, the one    *)
(* the mounted callbacks and the button's disabled attribute were created  *)
(* with; overlapTask is a decryptCiphertext call started while decryptTask *)
(* is pending.                                                             *)
VARIABLES address, instance, ui, joinTask, guessTask, decryptTask, refreshes,
          rendered, overlapTask

storage == <<_owner, _nonce, _players, _rounds>>
chain == <<storage, balanceOf, events, acl, assigned>>
client == <<address, instance, ui, joinTask, guessTask, decryptTask, refreshes,
           rendered, overlapTask>>
vars == <<_owner, _nonce, _players, _rounds, balanceOf, events, acl, assigned, last,
          address, instance, ui, joinTask, guessTask, decryptTask, refreshes,
          rendered, overlapTask>>

PlayerState(secret, lastResult, joined) ==
  [secret |-> secret, lastResult |-> lastResult, joined |-> joined]

NoArg == "-"
Call(op, sender, err) ==
  [op |-> op, sender |-> sender, err |-> err, value |-> 0, digest |-> NoArg,
   guess |-> NoArg, proofOk |-> TRUE, recipient |-> NoArg, amount |-> 0,
   accepted |-> TRUE, nonce |-> 0, player |-> NoArg, ret |-> NoArg]
Ok == "ok"

(***************************************************************************)
(* GameApp: initial React state                                            *)
(***************************************************************************)
NoAddress == "undefined"
NullCipher == [h |-> <<"null">>, v |-> U32(0)]
NullCode == -1
NoStatus == "null"
Idle == [stage |-> "idle", addr |-> NoAddress, n |-> 0, cipher |-> NullCipher]

ClientInit ==
  /\ address = NoAddress
  /\ instance = "loading"
  /\ ui = [entryFee |-> 0, hasJoined |-> FALSE, round |-> 0, guessValue |-> <<>>,
           encryptedResult |-> NullCipher, lastDecryptedCipher |-> NullCipher,
           feedbackCode |-> NullCode, isJoining |-> FALSE, isGuessing |-> FALSE,
           isDecrypting |-> FALSE, statusMessage |-> NoStatus]
  /\ joinTask = Idle
  /\ guessTask = Idle
  /\ decryptTask = Idle
  /\ refreshes = {}
  /\ rendered = FALSE
  /\ overlapTask = Idle

Init ==
  /\ ClientInit
  /\ _owner = Deployer
  /\ _nonce = 0
  /\ _players = [a \in Addresses |-> PlayerState(ZeroCiphertext, ZeroCiphertext, FALSE)]
  /\ _rounds = [a \in Addresses |-> 0]
  /\ balanceOf = [a \in Accounts |-> IF a = This THEN 0 ELSE InitialFunds]
  /\ events = <<>>
  /\ acl = {}
  /\ assigned = [a \in Users |-> ZeroCiphertext]
  /\ last = Call("constructor", _owner, Ok)

(***************************************************************************)
(* View functions                                                          *)
(***************************************************************************)
getLatestResult(player) == _players[player].lastResult
getEncryptedSecret(player) == _players[player].secret
hasJoined(player) == _players[player].joined
getRound(player) == _rounds[player]
entryFee == ENTRY_FEE
owner == _owner

ViewNames ==
  {"getLatestResult", "getEncryptedSecret", "hasJoined", "getRound", "entryFee", "owner"}

viewResult_OfCaller(caller, fn, player) ==
  CASE fn = "getLatestResult" -> getLatestResult(caller)
    [] fn = "getEncryptedSecret" -> getEncryptedSecret(caller)
    [] fn = "hasJoined" -> hasJoined(caller)
    [] fn = "getRound" -> getRound(caller)
    [] fn = "entryFee" -> entryFee
    [] fn = "owner" -> owner

viewResult(caller, fn, player) ==
  CASE fn = "getLatestResult" -> getLatestResult(player)
    [] fn = "getEncryptedSecret" -> getEncryptedSecret(player)
    [] fn = "hasJoined" -> hasJoined(player)
    [] fn = "getRound" -> getRound(player)
    [] fn = "entryFee" -> entryFee
    [] fn = "owner" -> owner

view(caller, fn, player) ==
  /\ last' = [Call(fn, caller, Ok) EXCEPT
                 !.player = IF fn \in {"entryFee", "owner"} THEN NoArg ELSE player,
                 !.ret = viewResult(caller, fn, player)]
  /\ UNCHANGED chain

(***************************************************************************)
(* _generateSecret: the value derived from the digest of                   *)
(* (timestamp, previous block hash, player, nonce)                         *)
(***************************************************************************)
_generateSecret_NoOffset(digest) == U32(Mod256(digest, 20))
_generateSecret(digest) == U32(Mod256(digest, 20) + 1)

(***************************************************************************)
(* joinGame                                                                *)
(***************************************************************************)
joinGameError_AtLeastFee(value) == IF value < ENTRY_FEE THEN "InvalidEntryFee" ELSE Ok
joinGameError(value) == IF value # ENTRY_FEE THEN "InvalidEntryFee" ELSE Ok

nextRound_NoIncrement(sender) == _rounds[sender]
nextRound_FromNonce(sender) == _nonce + 1
nextRound(sender) == _rounds[sender] + 1

joinedState_KeepsResult(sender, encryptedSecret, resetResult) ==
  PlayerState(encryptedSecret, _players[sender].lastResult, TRUE)
joinedState(sender, encryptedSecret, resetResult) ==
  PlayerState(encryptedSecret, resetResult, TRUE)

hashedNonce_BeforeIncrement(incremented) == incremented - 1
hashedNonce(incremented) == incremented

secretGrants_ResultOnly(grants, encryptedSecret, resetResult) ==
  FHE_allowThis(grants, resetResult)
secretGrants(grants, encryptedSecret, resetResult) ==
  FHE_allowThis(FHE_allowThis(grants, encryptedSecret), resetResult)

joinGame_PostIncrement(sender, value, digest) ==
  LET err == joinGameError(value)
      encryptedSecret == FHE_asEuint32(_generateSecret(digest))
      resetResult == FHE_asEuint32(U32(0))
      round == nextRound(sender)
  IN  /\ balanceOf[sender] >= value
      /\ last' = [Call("joinGame", sender, err) EXCEPT !.value = value,
                     !.digest = IF err = Ok THEN digest ELSE NoArg,
                     !.nonce = IF err = Ok THEN hashedNonce(_nonce + 1) ELSE 0]
      /\ IF err # Ok
         THEN UNCHANGED chain
         ELSE /\ Len(events) < MaxEvents
              /\ _nonce' = _nonce + 1
              /\ _players' = [_players EXCEPT ![sender] =
                                joinedState(sender, encryptedSecret, resetResult)]
              /\ acl' = secretGrants(acl, encryptedSecret, resetResult)
              /\ _rounds' = [_rounds EXCEPT ![sender] = round]
              /\ events' = Append(events, <<"PlayerJoined", sender, _rounds[sender]>>)
              /\ balanceOf' = [balanceOf EXCEPT ![sender] = @ - value, ![This] = @ + value]
              /\ assigned' = [assigned EXCEPT ![sender] = encryptedSecret]
              /\ UNCHANGED _owner

joinGame_NonceBeforeFeeCheck(sender, value, digest) ==
  LET err == joinGameError(value)
      encryptedSecret == FHE_asEuint32(_generateSecret(digest))
      resetResult == FHE_asEuint32(U32(0))
      round == nextRound(sender)
  IN  /\ balanceOf[sender] >= value
      /\ last' = [Call("joinGame", sender, err) EXCEPT !.value = value,
                     !.digest = IF err = Ok THEN digest ELSE NoArg,
                     !.nonce = IF err = Ok THEN hashedNonce(_nonce + 1) ELSE 0]
      /\ IF err # Ok
         THEN /\ _nonce < MaxEvents
              /\ _nonce' = _nonce + 1
              /\ UNCHANGED <<_owner, _players, _rounds, balanceOf, events, acl, assigned>>
         ELSE /\ Len(events) < MaxEvents
              /\ _nonce' = _nonce + 1
              /\ _players' = [_players EXCEPT ![sender] =
                                joinedState(sender, encryptedSecret, resetResult)]
              /\ acl' = secretGrants(acl, encryptedSecret, resetResult)
              /\ _rounds' = [_rounds EXCEPT ![sender] = round]
              /\ events' = Append(events, <<"PlayerJoined", sender, round>>)
              /\ balanceOf' = [balanceOf EXCEPT ![sender] = @ - value, ![This] = @ + value]
              /\ assigned' = [assigned EXCEPT ![sender] = encryptedSecret]
              /\ UNCHANGED _owner

joinGame(sender, value, digest) ==
  LET err == joinGameError(value)
      encryptedSecret == FHE_asEuint32(_generateSecret(digest))
      resetResult == FHE_asEuint32(U32(0))
      round == nextRound(sender)
  IN  /\ balanceOf[sender] >= value
      /\ last' = [Call("joinGame", sender, err) EXCEPT !.value = value,
                     !.digest = IF err = Ok THEN digest ELSE NoArg,
                     !.nonce = IF err = Ok THEN hashedNonce(_nonce + 1) ELSE 0]
      /\ IF err # Ok
         THEN UNCHANGED chain
         ELSE /\ Len(events) < MaxEvents
              /\ _nonce' = _nonce + 1
              /\ _players' = [_players EXCEPT ![sender] =
                                joinedState(sender, encryptedSecret, resetResult)]
              /\ acl' = secretGrants(acl, encryptedSecret, resetResult)
              /\ _rounds' = [_rounds EXCEPT ![sender] = round]
              /\ events' = Append(events, <<"PlayerJoined", sender, round>>)
              /\ balanceOf' = [balanceOf EXCEPT ![sender] = @ - value, ![This] = @ + value]
              /\ assigned' = [assigned EXCEPT ![sender] = encryptedSecret]
              /\ UNCHANGED _owner

(***************************************************************************)
(* submitGuess                                                             *)
(***************************************************************************)
Evaluate_GuessMinusSecret(guessValue, secretValue) ==
  LET difference == FHE_sub(guessValue, secretValue)
  IN  FHE_select(
        FHE_eq(difference, FHE_asEuint32(U32(0))),
        FHE_asEuint32(U32(1)),
        FHE_select(
          FHE_eq(difference, FHE_asEuint32(U32(1))),
          FHE_asEuint32(U32(2)),
          FHE_select(FHE_eq(difference, FHE_asEuint32(U32(2))),
                     FHE_asEuint32(U32(3)), FHE_asEuint32(U32(4)))))

Evaluate_SecretMinusGuess(guessValue, secretValue) ==
  LET difference == FHE_sub(secretValue, guessValue)
  IN  FHE_select(
        FHE_eq(difference, FHE_asEuint32(U32(0))),
        FHE_asEuint32(U32(1)),
        FHE_select(
          FHE_eq(difference, FHE_asEuint32(U32(1))),
          FHE_asEuint32(U32(2)),
          FHE_select(FHE_eq(difference, FHE_asEuint32(U32(2))),
                     FHE_asEuint32(U32(3)), FHE_asEuint32(U32(4)))))

Evaluate(guessValue, secretValue) ==
  LET guessGreaterThanSecret == FHE_gt(guessValue, secretValue)
      difference ==
        FHE_sub(FHE_select(guessGreaterThanSecret, guessValue, secretValue),
                FHE_select(guessGreaterThanSecret, secretValue, guessValue))
  IN  FHE_select(
        FHE_eq(difference, FHE_asEuint32(U32(0))),
        FHE_asEuint32(U32(1)),
        FHE_select(
          FHE_eq(difference, FHE_asEuint32(U32(1))),
          FHE_asEuint32(U32(2)),
          FHE_select(FHE_eq(difference, FHE_asEuint32(U32(2))),
                     FHE_asEuint32(U32(3)), FHE_asEuint32(U32(4)))))

secretOf_Owner(sender) == _players[_owner].secret
secretOf(sender) == _players[sender].secret

submitGuessError_NoJoinCheck(sender, proofOk) ==
  IF ~proofOk THEN "InvalidInputProof"
  ELSE IF FHE_isInitialized(secretOf(sender)) /\ ~FHE_isAllowed(acl, secretOf(sender), This)
    THEN "SenderNotAllowed"
  ELSE Ok

submitGuessError(sender, proofOk) ==
  IF ~_players[sender].joined THEN "PlayerNotJoined"
  ELSE IF ~proofOk THEN "InvalidInputProof"
  ELSE IF FHE_isInitialized(secretOf(sender)) /\ ~FHE_isAllowed(acl, secretOf(sender), This)
    THEN "SenderNotAllowed"
  ELSE Ok

storedResult_FirstGuessOnly(sender, finalResult) ==
  IF _players[sender].lastResult = FHE_asEuint32(U32(0))
  THEN finalResult ELSE _players[sender].lastResult
storedResult(sender, finalResult) == finalResult

resultGrants_SecretToo(grants, finalResult, sender) ==
  FHE_allow(FHE_allow(FHE_allowThis(grants, finalResult), finalResult, sender),
            secretOf(sender), sender)
resultGrants_OwnerToo(grants, finalResult, sender) ==
  FHE_allow(FHE_allow(FHE_allowThis(grants, finalResult), finalResult, sender),
            finalResult, _owner)
resultGrants(grants, finalResult, sender) ==
  FHE_allow(FHE_allowThis(grants, finalResult), finalResult, sender)

submitGuess_StoresForOwner(sender, guess, proofOk) ==
  LET err == submitGuessError(sender, proofOk)
      guessValue == FHE_fromExternal(sender, guess)
      secretValue == FHE_operand(secretOf(sender))
      finalResult == Evaluate(guessValue, secretValue)
  IN  /\ last' = [Call("submitGuess", sender, err) EXCEPT
                     !.proofOk = IF err = "PlayerNotJoined" THEN TRUE ELSE proofOk,
                     !.guess = IF err = Ok THEN guess ELSE NoArg]
      /\ IF err # Ok
         THEN UNCHANGED chain
         ELSE /\ Len(events) < MaxEvents
              /\ _players' = [_players EXCEPT ![_owner].lastResult =
                                storedResult(sender, finalResult)]
              /\ acl' = resultGrants(acl, finalResult, sender)
              /\ events' = Append(events, <<"GuessEvaluated", sender, _rounds[sender]>>)
              /\ UNCHANGED <<_owner, _nonce, _rounds, balanceOf, assigned>>

submitGuess_CountsRound(sender, guess, proofOk) ==
  LET err == submitGuessError(sender, proofOk)
      guessValue == FHE_fromExternal(sender, guess)
      secretValue == FHE_operand(secretOf(sender))
      finalResult == Evaluate(guessValue, secretValue)
  IN  /\ last' = [Call("submitGuess", sender, err) EXCEPT
                     !.proofOk = IF err = "PlayerNotJoined" THEN TRUE ELSE proofOk,
                     !.guess = IF err = Ok THEN guess ELSE NoArg]
      /\ IF err # Ok
         THEN UNCHANGED chain
         ELSE /\ Len(events) < MaxEvents
              /\ _players' = [_players EXCEPT ![sender].lastResult =
                                storedResult(sender, finalResult)]
              /\ acl' = resultGrants(acl, finalResult, sender)
              /\ _rounds' = [_rounds EXCEPT ![sender] = @ + 1]
              /\ events' = Append(events, <<"GuessEvaluated", sender, _rounds[sender] + 1>>)
              /\ UNCHANGED <<_owner, _nonce, balanceOf, assigned>>

submitGuess(sender, guess, proofOk) ==
  LET err == submitGuessError(sender, proofOk)
      guessValue == FHE_fromExternal(sender, guess)
      secretValue == FHE_operand(secretOf(sender))
      finalResult == Evaluate(guessValue, secretValue)
  IN  /\ last' = [Call("submitGuess", sender, err) EXCEPT
                     !.proofOk = IF err = "PlayerNotJoined" THEN TRUE ELSE proofOk,
                     !.guess = IF err = Ok THEN guess ELSE NoArg]
      /\ IF err # Ok
         THEN UNCHANGED chain
         ELSE /\ Len(events) < MaxEvents
              /\ _players' = [_players EXCEPT ![sender].lastResult =
                                storedResult(sender, finalResult)]
              /\ acl' = resultGrants(acl, finalResult, sender)
              /\ events' = Append(events, <<"GuessEvaluated", sender, _rounds[sender]>>)
              /\ UNCHANGED <<_owner, _nonce, _rounds, balanceOf, assigned>>

(***************************************************************************)
(* withdraw, behind the onlyOwner modifier                                 *)
(***************************************************************************)
onlyOwner_Anyone(sender) == TRUE
onlyOwner(sender) == sender = _owner

withdrawError_NoBalanceCheck(sender, recipient, amount, accepted) ==
  IF ~onlyOwner(sender) THEN "NotOwner"
  ELSE IF recipient = ZeroAddress THEN "InvalidRecipient"
  ELSE IF amount = 0 THEN "InvalidAmount"
  ELSE IF ~accepted THEN "WithdrawalFailed"
  ELSE Ok

withdrawError_AmountFirst(sender, recipient, amount, accepted) ==
  IF ~onlyOwner(sender) THEN "NotOwner"
  ELSE IF amount = 0 \/ amount > balanceOf[This] THEN "InvalidAmount"
  ELSE IF recipient = ZeroAddress THEN "InvalidRecipient"
  ELSE IF ~accepted THEN "WithdrawalFailed"
  ELSE Ok

withdrawError(sender, recipient, amount, accepted) ==
  IF ~onlyOwner(sender) THEN "NotOwner"
  ELSE IF recipient = ZeroAddress THEN "InvalidRecipient"
  ELSE IF amount = 0 \/ amount > balanceOf[This] THEN "InvalidAmount"
  ELSE IF ~accepted THEN "WithdrawalFailed"
  ELSE Ok

withdraw_PaysSender(sender, recipient, amount, accepted) ==
  LET err == withdrawError(sender, recipient, amount, accepted)
  IN  /\ last' = [Call("withdraw", sender, err) EXCEPT !.recipient = recipient,
                     !.amount = amount,
                     !.accepted = IF err \in {Ok, "WithdrawalFailed"} THEN accepted ELSE TRUE]
      /\ IF err # Ok
         THEN UNCHANGED chain
         ELSE /\ Len(events) < MaxEvents
              /\ balanceOf' = [balanceOf EXCEPT ![This] = @ - amount, ![sender] = @ + amount]
              /\ events' = Append(events, <<"Withdrawal", recipient, amount>>)
              /\ UNCHANGED <<storage, acl, assigned>>

withdraw(sender, recipient, amount, accepted) ==
  LET err == withdrawError(sender, recipient, amount, accepted)
  IN  /\ last' = [Call("withdraw", sender, err) EXCEPT !.recipient = recipient,
                     !.amount = amount,
                     !.accepted = IF err \in {Ok, "WithdrawalFailed"} THEN accepted ELSE TRUE]
      /\ IF err # Ok
         THEN UNCHANGED chain
         ELSE /\ Len(events) < MaxEvents
              /\ balanceOf' = [balanceOf EXCEPT ![This] = @ - amount, ![recipient] = @ + amount]
              /\ events' = Append(events, <<"Withdrawal", recipient, amount>>)
              /\ UNCHANGED <<storage, acl, assigned>>

(***************************************************************************)
(* Inputs of the calls                                                     *)
(***************************************************************************)
Values == {ENTRY_FEE - 1, ENTRY_FEE, ENTRY_FEE + 1}
Guesses == {U32(1), U32(3), U32(15)}
Amounts == {0, ENTRY_FEE}

Next ==
  \/ /\ \E sender \in Users, value \in Values, digest \in Digests :
          joinGame(sender, value, digest)
     /\ UNCHANGED client
  \/ /\ \E sender \in Users, guess \in Guesses, proofOk \in BOOLEAN :
          submitGuess(sender, guess, proofOk)
     /\ UNCHANGED client
  \/ /\ \E sender \in Users, recipient \in Addresses, amount \in Amounts,
          accepted \in BOOLEAN :
          withdraw(sender, recipient, amount, accepted)
     /\ UNCHANGED client

Spec == Init /\ [][Next]_vars

(***************************************************************************)
(* The evaluation on its own: one player joins once, with any of the       *)
(* secrets 1..20, and submits one guess from 0..22 or the largest uint32.  *)
(***************************************************************************)
AllGuesses == {U32(n) : n \in 0..22} \cup {MaxU32}

EvalJoin ==
  /\ ~hasJoined("alice")
  /\ \E digest \in AllResidueDigests : joinGame("alice", ENTRY_FEE, digest)
  /\ UNCHANGED client
EvalGuess ==
  /\ getLatestResult("alice") = FHE_asEuint32(U32(0))
  /\ \E guess \in AllGuesses : submitGuess("alice", guess, TRUE)
  /\ UNCHANGED client
EvalNext == EvalJoin \/ EvalGuess
EvalSpec == Init /\ [][EvalNext]_vars

(***************************************************************************)
(* The read accessors, called by anyone for anyone, between joins and      *)
(* guesses                                                                 *)
(***************************************************************************)
ViewJoin ==
  /\ \E sender \in Users : joinGame(sender, ENTRY_FEE, DigestMax)
  /\ UNCHANGED client
ViewGuess ==
  /\ \E sender \in Users : submitGuess(sender, U32(15), TRUE)
  /\ UNCHANGED client
ViewCall ==
  /\ \E caller \in Users, fn \in ViewNames, player \in Addresses :
        view(caller, fn, player)
  /\ UNCHANGED client
ViewNext == ViewJoin \/ ViewGuess \/ ViewCall
ViewSpec == Init /\ [][ViewNext]_vars

(***************************************************************************)
(* GameApp: Number(guessValue.trim()) over the decimal spellings a number  *)
(* input can hold                                                          *)
(***************************************************************************)
Digits == <<"0", "1", "2", "3", "4", "5", "6", "7", "8", "9">>
IsDigit(c) == \E i \in 1..10 : Digits[i] = c
DigitValue(c) == (CHOOSE i \in 1..10 : Digits[i] = c) - 1
AllDigits(s) == \A i \in 1..Len(s) : IsDigit(s[i])
AllZeros(s) == \A i \in 1..Len(s) : s[i] = "0"

RECURSIVE DigitsValue(_)
DigitsValue(s) ==
  IF s = <<>> THEN 0
  ELSE 10 * DigitsValue(SubSeq(s, 1, Len(s) - 1)) + DigitValue(s[Len(s)])

RECURSIVE trimStart(_)
trimStart(s) == IF s # <<>> /\ Head(s) = " " THEN trimStart(Tail(s)) ELSE s
RECURSIVE trimEnd(_)
trimEnd(s) ==
  IF s # <<>> /\ s[Len(s)] = " " THEN trimEnd(SubSeq(s, 1, Len(s) - 1)) ELSE s
trim(s) == trimEnd(trimStart(s))

NaN == [nan |-> TRUE, whole |-> 0, fraction |-> FALSE]
Number(text) ==
  LET s == trim(text)
      signed == s # <<>> /\ Head(s) \in {"-", "+"}
      negative == s # <<>> /\ Head(s) = "-"
      body == IF signed THEN Tail(s) ELSE s
      dots == {i \in 1..Len(body) : body[i] = "."}
      dot == IF dots = {} THEN Len(body) + 1 ELSE CHOOSE i \in dots : TRUE
      int == SubSeq(body, 1, dot - 1)
      frac == SubSeq(body, dot + 1, Len(body))
  IN  IF s = <<>> THEN [nan |-> FALSE, whole |-> 0, fraction |-> FALSE]
      ELSE IF \/ Cardinality(dots) > 1
              \/ ~AllDigits(int) \/ ~AllDigits(frac)
              \/ (int = <<>> /\ frac = <<>>)
        THEN NaN
      ELSE [nan |-> FALSE,
            whole |-> IF negative THEN 0 - DigitsValue(int) ELSE DigitsValue(int),
            fraction |-> ~AllZeros(frac)]

isInteger(x) == ~x.nan /\ ~x.fraction

guessRejected_ZeroAllowed(guessNumber) ==
  ~isInteger(guessNumber) \/ guessNumber.whole < 0 \/ guessNumber.whole > 20
guessRejected(guessNumber) ==
  ~isInteger(guessNumber) \/ guessNumber.whole < 1 \/ guessNumber.whole > 20

(***************************************************************************)
(* GameApp: hooks, effects and handlers                                    *)
(***************************************************************************)
isContractConfigured == TRUE
isZamaLoading == instance = "loading"
ResultPresent(cipher) == cipher # NullCipher /\ cipher.h # ZeroHandle
ResultReady == "Encrypted result ready. Click decrypt to reveal feedback."
\* err.message of whatever the try block threw, a missing signer included
ErrorMessage == "err.message"

\* useEffect on [address, encryptedResult, isContractConfigured, lastDecryptedCipher]
resultEffect(next, nextAddress) ==
  IF /\ <<nextAddress, next.encryptedResult, next.lastDecryptedCipher>> #
          <<address, ui.encryptedResult, ui.lastDecryptedCipher>>
     /\ ResultPresent(next.encryptedResult)
     /\ nextAddress # NoAddress /\ isContractConfigured
     /\ next.encryptedResult # next.lastDecryptedCipher
    THEN [next EXCEPT !.statusMessage = ResultReady]
    ELSE next

\* refreshPlayerData up to its first await
refreshReset(next, account) ==
  IF account = NoAddress \/ ~isContractConfigured
    THEN [next EXCEPT !.hasJoined = FALSE, !.round = 0, !.encryptedResult = NullCipher,
                      !.feedbackCode = NullCode, !.lastDecryptedCipher = NullCipher]
    ELSE next
refreshStarted(account, origin) ==
  IF account = NoAddress \/ ~isContractConfigured
    THEN refreshes
    ELSE refreshes \cup {[addr |-> account, origin |-> origin]}

\* refreshPlayerData after the reads resolve, and the finally block of the
\* handler that awaited it
refreshApplied(account) ==
  LET joined == hasJoined(account)
      latestResult == getLatestResult(account)
      changed == ui.encryptedResult # latestResult
  IN  [ui EXCEPT
         !.hasJoined = joined,
         !.round = getRound(account),
         !.encryptedResult = latestResult,
         !.feedbackCode = IF changed \/ ~joined THEN NullCode ELSE @,
         !.lastDecryptedCipher = IF changed \/ ~joined THEN NullCipher ELSE @,
         !.statusMessage = IF changed /\ ResultPresent(latestResult) THEN ResultReady ELSE @]

refreshSettled(task, ok) ==
  /\ task \in refreshes
  /\ refreshes' = refreshes \ {task}
  /\ LET applied == IF ok THEN refreshApplied(task.addr) ELSE ui
         settled == [applied EXCEPT
                       !.isJoining = IF task.origin = "join" THEN FALSE ELSE @,
                       !.isGuessing = IF task.origin = "guess" THEN FALSE ELSE @]
     IN  ui' = resultEffect(settled, address)
  /\ joinTask' = IF task.origin = "join" THEN Idle ELSE joinTask
  /\ guessTask' = IF task.origin = "guess" THEN Idle ELSE guessTask
  /\ UNCHANGED <<overlapTask, address, instance, decryptTask, chain, last>>

loadEntryFee ==
  /\ ui.entryFee # entryFee
  /\ ui' = [ui EXCEPT !.entryFee = entryFee]
  /\ UNCHANGED <<overlapTask, address, instance, joinTask, guessTask, decryptTask, refreshes, chain, last>>

zamaSettled(ok) ==
  /\ instance = "loading"
  /\ instance' = IF ok THEN "ready" ELSE "error"
  /\ UNCHANGED <<overlapTask, address, ui, joinTask, guessTask, decryptTask, refreshes, chain, last>>

accountChanged(account) ==
  /\ account # address
  /\ address' = account
  /\ ui' = resultEffect(refreshReset(ui, account), account)
  /\ refreshes' = refreshStarted(account, "effect")
  /\ UNCHANGED <<overlapTask, instance, joinTask, guessTask, decryptTask, chain, last>>

setGuessValue(text) ==
  /\ text # ui.guessValue
  /\ ui' = [ui EXCEPT !.guessValue = text]
  /\ UNCHANGED <<overlapTask, address, instance, joinTask, guessTask, decryptTask, refreshes, chain, last>>

JoinButtonEnabled ==
  ~(ui.isJoining \/ address = NoAddress \/ isZamaLoading \/ ~isContractConfigured)

handleJoin ==
  /\ IF address = NoAddress
       THEN /\ ui' = [ui EXCEPT !.statusMessage = "Connect your wallet to join."]
            /\ UNCHANGED joinTask
     ELSE IF ~isContractConfigured
       THEN /\ ui' = [ui EXCEPT !.statusMessage = "Contract address is not configured."]
            /\ UNCHANGED joinTask
     ELSE /\ ui' = [ui EXCEPT !.isJoining = TRUE,
                              !.statusMessage = "Submitting join transaction..."]
          /\ joinTask' = [Idle EXCEPT !.stage = "tx", !.addr = address]
  /\ UNCHANGED <<overlapTask, address, instance, guessTask, decryptTask, refreshes, chain, last>>

joinSettled(outcome, digest) ==
  /\ joinTask.stage = "tx"
  /\ LET fee == IF ui.entryFee # 0 THEN ui.entryFee ELSE entryFee
     IN  IF outcome = "mined"
           THEN /\ joinGame(joinTask.addr, fee, digest)
                /\ IF joinGameError(fee) = Ok
                     THEN /\ ui' = resultEffect(
                                     [ui EXCEPT
                                        !.statusMessage =
                                          "Joined the game. A new encrypted secret has been generated.",
                                        !.feedbackCode = NullCode,
                                        !.lastDecryptedCipher = NullCipher], address)
                          /\ refreshes' = refreshStarted(joinTask.addr, "join")
                          /\ joinTask' = [joinTask EXCEPT !.stage = "refresh"]
                     ELSE /\ ui' = [ui EXCEPT !.statusMessage = ErrorMessage,
                                              !.isJoining = FALSE]
                          /\ joinTask' = Idle
                          /\ UNCHANGED refreshes
           ELSE /\ ui' = [ui EXCEPT
                            !.statusMessage = ErrorMessage,
                            !.isJoining = FALSE]
                /\ joinTask' = Idle
                /\ UNCHANGED <<refreshes, chain, last>>
  /\ UNCHANGED <<overlapTask, address, instance, guessTask, decryptTask>>

GuessButtonEnabled ==
  ~(ui.isGuessing \/ address = NoAddress \/ ~ui.hasJoined \/ isZamaLoading
      \/ ~isContractConfigured)

handleGuess ==
  /\ LET guessNumber == Number(ui.guessValue)
     IN  IF address = NoAddress
           THEN /\ ui' = [ui EXCEPT !.statusMessage = "Connect your wallet to submit guesses."]
                /\ UNCHANGED guessTask
         ELSE IF ~isContractConfigured
           THEN /\ ui' = [ui EXCEPT !.statusMessage = "Contract address is not configured."]
                /\ UNCHANGED guessTask
         ELSE IF ~ui.hasJoined
           THEN /\ ui' = [ui EXCEPT !.statusMessage = "Join the game before submitting a guess."]
                /\ UNCHANGED guessTask
         ELSE IF guessRejected(guessNumber)
           THEN /\ ui' = [ui EXCEPT !.statusMessage = "Enter a number between 1 and 20."]
                /\ UNCHANGED guessTask
         ELSE IF instance # "ready"
           THEN /\ ui' = [ui EXCEPT !.statusMessage = "Encryption service is not ready yet."]
                /\ UNCHANGED guessTask
         ELSE /\ ui' = [ui EXCEPT
                          !.isGuessing = TRUE,
                          !.statusMessage = "Encrypting guess and submitting transaction..."]
              /\ guessTask' = [Idle EXCEPT !.stage = "tx", !.addr = address,
                                           !.n = guessNumber.whole]
  /\ UNCHANGED <<overlapTask, address, instance, joinTask, decryptTask, refreshes, chain, last>>

guessSettled(outcome) ==
  /\ guessTask.stage = "tx"
  /\ IF outcome = "mined"
       THEN /\ submitGuess(guessTask.addr, U32(guessTask.n), TRUE)
            /\ IF submitGuessError(guessTask.addr, TRUE) = Ok
                 THEN /\ ui' = [ui EXCEPT
                                  !.statusMessage =
                                    "Guess submitted. Click decrypt after the result updates.",
                                  !.guessValue = <<>>]
                      /\ refreshes' = refreshStarted(guessTask.addr, "guess")
                      /\ guessTask' = [guessTask EXCEPT !.stage = "refresh"]
                 ELSE /\ ui' = [ui EXCEPT !.statusMessage = ErrorMessage,
                                          !.isGuessing = FALSE]
                      /\ guessTask' = Idle
                      /\ UNCHANGED refreshes
       ELSE /\ ui' = [ui EXCEPT
                        !.statusMessage = ErrorMessage,
                        !.isGuessing = FALSE]
            /\ guessTask' = Idle
            /\ UNCHANGED <<refreshes, chain, last>>
  /\ UNCHANGED <<overlapTask, address, instance, joinTask, decryptTask>>

DecryptButtonEnabled ==
  ~(rendered \/ ~ResultPresent(ui.encryptedResult) \/ address = NoAddress
      \/ ~isContractConfigured)

decryptCiphertext(cipher) ==
  IF instance # "ready" \/ address = NoAddress \/ ~isContractConfigured
    THEN UNCHANGED <<ui, decryptTask, overlapTask>>
  ELSE IF rendered
    THEN UNCHANGED <<ui, decryptTask, overlapTask>>
  ELSE /\ ui' = [ui EXCEPT !.isDecrypting = TRUE,
                           !.statusMessage = "Requesting decryption..."]
       /\ LET request == [Idle EXCEPT !.stage = "pending", !.addr = address,
                                      !.cipher = cipher]
          IN  IF decryptTask.stage = "idle"
                THEN decryptTask' = request /\ UNCHANGED overlapTask
                ELSE overlapTask' = request /\ UNCHANGED decryptTask

manualDecrypt ==
  /\ IF ~ResultPresent(ui.encryptedResult)
       THEN /\ ui' = [ui EXCEPT !.statusMessage = "No encrypted result to decrypt yet."]
            /\ UNCHANGED <<decryptTask, overlapTask>>
     ELSE IF ~isContractConfigured
       THEN /\ ui' = [ui EXCEPT !.statusMessage = "Contract address is not configured."]
            /\ UNCHANGED <<decryptTask, overlapTask>>
     ELSE decryptCiphertext(ui.encryptedResult)
  /\ UNCHANGED <<address, instance, joinTask, guessTask, refreshes, chain, last>>

\* instance.userDecrypt: the relayer answers for a handle that both the
\* requesting user and the contract are allowed on
userDecrypt(cipher, user) ==
  IF FHE_isAllowed(acl, cipher, user) /\ FHE_isAllowed(acl, cipher, This)
    THEN cipher.v[1] * Base + cipher.v[2]
    ELSE NullCode

decryptSettled_NoFinally(outcome) ==
  /\ decryptTask.stage = "pending"
  /\ decryptTask' = Idle
  /\ LET rawValue == userDecrypt(decryptTask.cipher, decryptTask.addr)
     IN  IF outcome = "failed" \/ rawValue = NullCode
           THEN ui' = [ui EXCEPT !.statusMessage = ErrorMessage]
         ELSE IF rawValue = 0
           THEN ui' = [ui EXCEPT !.statusMessage = "No decrypted value returned",
                                 !.isDecrypting = FALSE]
         ELSE ui' = resultEffect(
                      [ui EXCEPT !.feedbackCode = rawValue,
                                 !.lastDecryptedCipher = decryptTask.cipher,
                                 !.statusMessage = "Decryption completed.",
                                 !.isDecrypting = FALSE], address)
  /\ UNCHANGED <<overlapTask, address, instance, joinTask, guessTask, refreshes, chain, last>>

decryptSettled(outcome) ==
  /\ decryptTask.stage = "pending"
  /\ decryptTask' = Idle
  /\ LET rawValue == userDecrypt(decryptTask.cipher, decryptTask.addr)
     IN  IF outcome = "failed" \/ rawValue = NullCode
           THEN ui' = [ui EXCEPT !.statusMessage = ErrorMessage, !.isDecrypting = FALSE]
         ELSE IF rawValue = 0
           THEN ui' = [ui EXCEPT !.statusMessage = "No decrypted value returned",
                                 !.isDecrypting = FALSE]
         ELSE ui' = resultEffect(
                      [ui EXCEPT !.feedbackCode = rawValue,
                                 !.lastDecryptedCipher = decryptTask.cipher,
                                 !.statusMessage = "Decryption completed.",
                                 !.isDecrypting = FALSE], address)
  /\ UNCHANGED <<overlapTask, address, instance, joinTask, guessTask, refreshes, chain, last>>


overlapSettled(outcome) ==
  /\ overlapTask.stage = "pending"
  /\ overlapTask' = Idle
  /\ LET rawValue == userDecrypt(overlapTask.cipher, overlapTask.addr)
     IN  IF outcome = "failed" \/ rawValue = NullCode
           THEN ui' = [ui EXCEPT !.statusMessage = ErrorMessage, !.isDecrypting = FALSE]
         ELSE IF rawValue = 0
           THEN ui' = [ui EXCEPT !.statusMessage = "No decrypted value returned",
                                 !.isDecrypting = FALSE]
         ELSE ui' = resultEffect(
                      [ui EXCEPT !.feedbackCode = rawValue,
                                 !.lastDecryptedCipher = overlapTask.cipher,
                                 !.statusMessage = "Decryption completed.",
                                 !.isDecrypting = FALSE], address)
  /\ UNCHANGED <<decryptTask, address, instance, joinTask, guessTask, refreshes, chain, last>>

\* React commits the render of the updated state
render ==
  /\ rendered # ui.isDecrypting
  /\ rendered' = ui.isDecrypting
  /\ UNCHANGED <<address, instance, ui, joinTask, guessTask, decryptTask, refreshes,
                 overlapTask, chain, last>>

Wallets == {"alice"}
Texts == {<<>>, <<"2", "0">>, <<"2", "1">>, <<"1", ".", "5">>}
Outcomes == {"failed", "mined"}

(* Every event and continuation is followed by the commit of its render    *)
(* before the next one runs.                                               *)
Committed == rendered' = ui'.isDecrypting

ClientNext ==
  \/ loadEntryFee /\ Committed
  \/ (\E ok \in BOOLEAN : zamaSettled(ok)) /\ Committed
  \/ (\E account \in Wallets \cup {NoAddress} : accountChanged(account)) /\ Committed
  \/ (\E task \in refreshes, ok \in BOOLEAN : refreshSettled(task, ok)) /\ Committed
  \/ (\E text \in Texts : setGuessValue(text)) /\ Committed
  \/ JoinButtonEnabled /\ handleJoin /\ Committed
  \/ (\E outcome \in Outcomes : joinSettled(outcome, DigestLow(20))) /\ Committed
  \/ GuessButtonEnabled /\ handleGuess /\ Committed
  \/ (\E outcome \in Outcomes : guessSettled(outcome)) /\ Committed
  \/ DecryptButtonEnabled /\ manualDecrypt /\ Committed
  \/ (\E outcome \in Outcomes : decryptSettled(outcome)) /\ Committed
ClientSpec == Init /\ [][ClientNext]_vars

(* The commit of a render as a step of its own: a second click can be      *)
(* dispatched to the mounted manualDecrypt before the render of the first  *)
(* one is committed.  Everything else runs on a committed render.          *)
InSync == rendered = ui.isDecrypting

RenderNext ==
  \/ InSync /\ (\E ok \in BOOLEAN : zamaSettled(ok)) /\ UNCHANGED rendered
  \/ InSync /\ (\E account \in Wallets \cup {NoAddress} : accountChanged(account))
       /\ UNCHANGED rendered
  \/ InSync /\ (\E task \in refreshes : refreshSettled(task, TRUE)) /\ UNCHANGED rendered
  \/ InSync /\ setGuessValue(<<"2", "0">>) /\ UNCHANGED rendered
  \/ InSync /\ JoinButtonEnabled /\ handleJoin /\ UNCHANGED rendered
  \/ InSync /\ (\E outcome \in Outcomes : joinSettled(outcome, DigestLow(20)))
       /\ UNCHANGED rendered
  \/ InSync /\ GuessButtonEnabled /\ handleGuess /\ UNCHANGED rendered
  \/ InSync /\ (\E outcome \in Outcomes : guessSettled(outcome)) /\ UNCHANGED rendered
  \/ overlapTask.stage = "idle" /\ DecryptButtonEnabled /\ manualDecrypt
       /\ UNCHANGED rendered
  \/ render
  \/ InSync /\ (\E outcome \in Outcomes : decryptSettled(outcome)) /\ UNCHANGED rendered
  \/ InSync /\ (\E outcome \in Outcomes : overlapSettled(outcome)) /\ UNCHANGED rendered
RenderSpec == Init /\ [][RenderNext]_vars

TypeOK ==
  /\ _owner \in Users
  /\ _nonce \in 0..MaxEvents
  /\ \A a \in Addresses : _rounds[a] \in 0..MaxEvents /\ _players[a].joined \in BOOLEAN
  /\ \A a \in Accounts : balanceOf[a] >= 0
  /\ Len(events) <= MaxEvents

(***************************************************************************)
(* Properties                                                              *)
(***************************************************************************)
ToInt(x) == x[1] * Base + x[2]
InRange(x) == x[1] = 0 /\ x[2] \in 1..20
Abs(n) == IF n < 0 THEN -n ELSE n
Distance(g, s) == Abs(ToInt(g) - ToInt(s))
Decrypt(ct) == ct.v
Sentinel == FHE_asEuint32(U32(0))
SucceededAs(op) == last.op = op /\ last.err = Ok
JoinedBefore(p, n) ==
  \E i \in 1..n : i <= Len(events) /\ events[i][1] = "PlayerJoined" /\ events[i][2] = p
NeverJoined(p) == ~JoinedBefore(p, Len(events))

\* C1: for every secret s and guess g in 1..20 the code stored by a
\* successful submitGuess decrypts to 1 iff g = s, to 2 iff |g - s| = 1,
\* to 3 iff |g - s| = 2 and to 4 otherwise, and evaluating the two values
\* with their roles exchanged gives the same code.
C1_CodeMatchesDistance ==
  (SucceededAs("submitGuess") /\ InRange(last.guess)) =>
    LET p == last.sender
        g == last.guess
        s == Decrypt(getEncryptedSecret(p))
        code == Decrypt(getLatestResult(p))
    IN  /\ InRange(s)
        /\ (code = U32(1)) <=> (g = s)
        /\ (code = U32(2)) <=> (Distance(g, s) = 1)
        /\ (code = U32(3)) <=> (Distance(g, s) = 2)
        /\ (code = U32(4)) <=> (Distance(g, s) > 2)
        /\ code = Decrypt(Evaluate(FHE_fromExternal(p, s), FHE_asEuint32(g)))

C1_Witness ==
  /\ SucceededAs("submitGuess")
  /\ last.guess = U32(18)
  /\ Decrypt(getEncryptedSecret(last.sender)) = U32(20)
  /\ Decrypt(getLatestResult(last.sender)) = U32(3)

\* C2: a joinGame call succeeds only if the amount paid is exactly the
\* entry fee; with any other amount, one below or one above the fee
\* included, it fails with InvalidEntryFee.
C2_ExactFeeRequired ==
  last.op = "joinGame" =>
    /\ last.err = Ok => last.value = ENTRY_FEE
    /\ last.value # ENTRY_FEE => last.err = "InvalidEntryFee"

C2_Witness ==
  last.op = "joinGame" /\ last.value = ENTRY_FEE + 1 /\ last.err = "InvalidEntryFee"

\* C3: a successful joinGame by p, first or repeated, leaves hasJoined(p)
\* true and getRound(p) exactly one above its value before the call.
C3_JoinSetsJoinedAndRound ==
  [][\A p \in Users :
       (last'.op = "joinGame" /\ last'.err = Ok /\ last'.sender = p) =>
         hasJoined(p)' /\ getRound(p)' = getRound(p) + 1]_vars

C3_Witness ==
  /\ SucceededAs("joinGame")
  /\ hasJoined(last.sender)
  /\ getRound(last.sender) = 2
  /\ _nonce = 3

\* C4: submitGuess by a player that never joined successfully fails with
\* PlayerNotJoined, and getLatestResult of a player that never joined is
\* the uninitialised handle.
C4_GuessBeforeJoin ==
  \A p \in Users :
    NeverJoined(p) =>
      /\ getLatestResult(p) = ZeroCiphertext
      /\ (last.op = "submitGuess" /\ last.sender = p) => last.err = "PlayerNotJoined"

C4_Witness ==
  /\ last.op = "submitGuess"
  /\ last.err = "PlayerNotJoined"
  /\ NeverJoined(last.sender)
  /\ \E q \in Users : hasJoined(q) /\ getLatestResult(q) # Sentinel

\* C5: a joinGame call with the exact fee by an already joined player
\* succeeds; afterwards the player's secret is the encryption of the value
\* derived in this call and lastResult is the encryption of 0, whatever
\* result was stored before.
C5_RejoinResets ==
  [][\A p \in Users :
       (last'.op = "joinGame" /\ last'.sender = p /\ last'.value = ENTRY_FEE
          /\ hasJoined(p)) =>
         /\ last'.err = Ok
         /\ getEncryptedSecret(p)' = FHE_asEuint32(_generateSecret(last'.digest))
         /\ getLatestResult(p)' = Sentinel
         /\ Decrypt(getLatestResult(p))' = U32(0)]_vars

C5_Witness ==
  /\ SucceededAs("joinGame")
  /\ getRound(last.sender) = 2
  /\ Len(events) = 3
  /\ events[2] = <<"GuessEvaluated", last.sender, 1>>
  /\ getLatestResult(last.sender) = Sentinel

\* C6: the owner is the deployer in every state, and a withdraw call by
\* anyone else fails with NotOwner whatever the recipient and the amount.
C6_NonOwnerWithdrawRejected ==
  /\ owner = Deployer
  /\ (last.op = "withdraw" /\ last.sender # Deployer) => last.err = "NotOwner"

C6_Witness ==
  /\ last.op = "withdraw"
  /\ last.sender # owner
  /\ last.recipient = ZeroAddress
  /\ last.amount = 0
  /\ last.err = "NotOwner"

\* C7: a withdraw call by the owner fails with InvalidRecipient if the
\* recipient is the zero address, otherwise with InvalidAmount if the
\* amount is zero or above the contract's balance, otherwise with
\* WithdrawalFailed if the recipient rejects the transfer, and otherwise
\* succeeds and moves the amount.
C7_OwnerWithdrawOutcome ==
  [][(last'.op = "withdraw" /\ last'.sender = owner) =>
       IF last'.recipient = ZeroAddress THEN last'.err = "InvalidRecipient"
       ELSE IF last'.amount = 0 \/ last'.amount > balanceOf[This]
         THEN last'.err = "InvalidAmount"
       ELSE IF ~last'.accepted THEN last'.err = "WithdrawalFailed"
       ELSE /\ last'.err = Ok
            /\ balanceOf'[This] = balanceOf[This] - last'.amount]_vars

C7_Witness ==
  /\ last.op = "withdraw"
  /\ last.sender = owner
  /\ last.err = "WithdrawalFailed"
  /\ last.amount = balanceOf[This]

\* C8: a call that fails leaves every player's record and round, the
\* nonce, the owner, all balances, the event log and the access-control
\* list as they were.
C8_FailureChangesNothing ==
  [][last'.err # Ok =>
       UNCHANGED <<_owner, _nonce, _players, _rounds, balanceOf, events, acl>>]_vars

C8_Witness ==
  /\ last.op = "joinGame"
  /\ last.err = "InvalidEntryFee"
  /\ hasJoined(last.sender)
  /\ getLatestResult(last.sender) # Sentinel
  /\ _nonce = 1

\* C9: a successful submitGuess(g) by p stores the code for the distance
\* between g and the secret assigned by p's latest successful join,
\* whatever other identities did in between.
C9_GuessAgainstAssignedSecret ==
  SucceededAs("submitGuess") =>
    LET p == last.sender
        d == Distance(last.guess, Decrypt(assigned[p]))
        code == Decrypt(getLatestResult(p))
    IN  /\ FHE_isInitialized(assigned[p])
        /\ code = U32(IF d = 0 THEN 1 ELSE IF d = 1 THEN 2 ELSE IF d = 2 THEN 3 ELSE 4)

C9_Witness ==
  /\ SucceededAs("submitGuess")
  /\ Len(events) = 3
  /\ events[1] = <<"PlayerJoined", last.sender, 1>>
  /\ events[2][1] = "PlayerJoined" /\ events[2][2] # last.sender
  /\ Decrypt(assigned[last.sender]) # Decrypt(assigned[events[2][2]])
  /\ Distance(last.guess, Decrypt(assigned[last.sender])) = 1
  /\ Decrypt(getLatestResult(last.sender)) = U32(2)

\* C10: in every step each player's round either stays as it is or, when
\* the step is a successful joinGame by that player, grows by exactly one.
C10_RoundCounter ==
  [][\A p \in Users :
       getRound(p)' =
         IF last'.op = "joinGame" /\ last'.err = Ok /\ last'.sender = p
         THEN getRound(p) + 1 ELSE getRound(p)]_vars

C10_Witness ==
  /\ SucceededAs("submitGuess")
  /\ getRound(last.sender) = 2
  /\ Len(events) = 3

CountJoined(ev) == Cardinality({i \in 1..Len(ev) : ev[i][1] = "PlayerJoined"})
JoinSucceeded(call) == call.op = "joinGame" /\ call.err = Ok

\* C11: the nonce is 0 at deployment and grows by exactly one in each
\* successful joinGame, whoever joins, and in no other step; the nonce
\* hashed by the k-th successful join is k, so no two joins hash the same.
C11_NonceSequence ==
  /\ _nonce = 0
  /\ [][/\ _nonce' = (IF JoinSucceeded(last') THEN _nonce + 1 ELSE _nonce)
        /\ JoinSucceeded(last') =>
             /\ last'.nonce = CountJoined(events')
             /\ last'.nonce = _nonce']_vars

C11_Witness ==
  /\ JoinSucceeded(last)
  /\ last.nonce = 3
  /\ events[1][2] # events[2][2]

RECURSIVE SumLimbs(_, _, _)
SumLimbs(d, from, to) == IF from > to THEN 0 ELSE d[from] + SumLimbs(d, from + 1, to)
\* 2^16 = 16 (mod 20) and 16 * 16 = 16 (mod 20), so every limb but the
\* lowest weighs 16 modulo 20.
Residue20(d) == (16 * SumLimbs(d, 1, 15) + d[16]) % 20

\* C12: the plaintext of the secret assigned by a successful joinGame is
\* (digest mod 20) + 1, unchanged by the cast to uint32, and every joined
\* player's secret lies in 1..20.
C12_SecretFromDigest ==
  /\ \A p \in Users : hasJoined(p) => InRange(Decrypt(getEncryptedSecret(p)))
  /\ JoinSucceeded(last) =>
       ToInt(Decrypt(getEncryptedSecret(last.sender))) = Residue20(last.digest) + 1

C12_Witness ==
  /\ JoinSucceeded(last)
  /\ last.digest = DigestMax
  /\ Decrypt(getEncryptedSecret(last.sender)) = U32(16)

Grantees(h) == {who \in Accounts : <<h, who>> \in acl}
IsResultHandle(h) == h[1] = "comp"
GuessedBy(h, p) == \E leaf \in h[2] : leaf[1] = "in" /\ leaf[2] = p

\* C13: every result ciphertext that was ever granted to anyone is granted
\* to exactly the player whose guess it evaluates and the contract.
C13_ResultGrants ==
  /\ \A g \in acl :
       IsResultHandle(g[1]) =>
         \E p \in Users : GuessedBy(g[1], p) /\ Grantees(g[1]) = {p, This}
  /\ \A p \in Users :
       IsResultHandle(getLatestResult(p).h) =>
         Grantees(getLatestResult(p).h) = {p, This}

C13_Witness ==
  /\ SucceededAs("submitGuess")
  /\ last.sender # owner
  /\ \A q \in Users : hasJoined(q)
  /\ Grantees(getLatestResult(last.sender).h) = {last.sender, This}

\* C14: the contract is authorized on every joined player's current
\* secret, and nobody but the contract and that player is.
C14_SecretGrants ==
  \A p \in Users :
    hasJoined(p) =>
      /\ This \in Grantees(getEncryptedSecret(p).h)
      /\ Grantees(getEncryptedSecret(p).h) \subseteq {This, p}

C14_Witness ==
  /\ \A q \in Users : hasJoined(q)
  /\ \A q \in Users : getEncryptedSecret(q) = getEncryptedSecret(owner)
  /\ SucceededAs("submitGuess")
  /\ Grantees(getEncryptedSecret(last.sender).h) = {This}

CodeFor(g, s) ==
  LET d == Distance(g, s)
  IN  U32(IF d = 0 THEN 1 ELSE IF d = 1 THEN 2 ELSE IF d = 2 THEN 3 ELSE 4)

\* C16: a successful submitGuess leaves as lastResult the code of the
\* guess just submitted, whatever result was stored before.
C16_LatestGuessOnly ==
  [][\A p \in Users :
       (last'.op = "submitGuess" /\ last'.err = Ok /\ last'.sender = p) =>
         Decrypt(getLatestResult(p))' =
           CodeFor(last'.guess, Decrypt(getEncryptedSecret(p)))]_vars

C16_Witness ==
  /\ SucceededAs("submitGuess")
  /\ Len(events) = 3
  /\ events[2] = <<"GuessEvaluated", last.sender, 1>>
  /\ events[3] = <<"GuessEvaluated", last.sender, 1>>
  /\ \E g \in acl :
       /\ g[2] = last.sender
       /\ IsResultHandle(g[1])
       /\ \E leaf \in g[1][2] :
            /\ leaf[1] = "in"
            /\ CodeFor(leaf[3], Decrypt(getEncryptedSecret(last.sender)))
                 # Decrypt(getLatestResult(last.sender))

\* C17: each player's lastResult is uninitialised, the encryption of 0, or
\* decrypts to 1, 2, 3 or 4; a guess of 0 or above 20 is coded by its true
\* distance, so a guess of 2^16 or more is coded 4.
C17_ResultRange ==
  \A p \in Users :
    LET r == getLatestResult(p)
    IN  \/ r = ZeroCiphertext
        \/ r = Sentinel
        \/ /\ Decrypt(r) \in {U32(1), U32(2), U32(3), U32(4)}
           /\ (SucceededAs("submitGuess") /\ last.sender = p) =>
                Decrypt(r) = IF last.guess[1] > 0 THEN U32(4)
                             ELSE CodeFor(last.guess, Decrypt(getEncryptedSecret(p)))

C17_Witness ==
  /\ SucceededAs("submitGuess")
  /\ last.guess = MaxU32
  /\ Decrypt(getEncryptedSecret(last.sender)) = U32(1)
  /\ Decrypt(getLatestResult(last.sender)) = U32(4)

\* C18: a successful withdraw moves exactly the amount from the contract
\* to the recipient, appends one Withdrawal(recipient, amount) event and
\* changes no player record, round, nonce or other balance.
C18_WithdrawEffect ==
  [][(last'.op = "withdraw" /\ last'.err = Ok) =>
       /\ balanceOf' = [balanceOf EXCEPT ![This] = @ - last'.amount,
                                         ![last'.recipient] = @ + last'.amount]
       /\ events' = Append(events, <<"Withdrawal", last'.recipient, last'.amount>>)
       /\ UNCHANGED <<_players, _rounds, _nonce, _owner>>]_vars

C18_Witness ==
  /\ SucceededAs("withdraw")
  /\ last.recipient # last.sender
  /\ last.amount = ENTRY_FEE
  /\ balanceOf[last.recipient] = InitialFunds + ENTRY_FEE
  /\ balanceOf[This] = ENTRY_FEE

ViewDefault(fn) ==
  CASE fn = "getLatestResult" -> ZeroCiphertext
    [] fn = "getEncryptedSecret" -> ZeroCiphertext
    [] fn = "hasJoined" -> FALSE
    [] fn = "getRound" -> 0

\* C15: a call of a read accessor succeeds, changes nothing, returns the
\* value stored for the queried player whoever the caller is (the fee and
\* the owner for entryFee and owner), and for a player that never joined
\* returns the zero handle, false or 0.
C15_ViewsArePure ==
  [][last'.op \in ViewNames =>
       /\ UNCHANGED chain
       /\ last'.err = Ok
       /\ last'.ret = CASE last'.op = "getLatestResult" -> getLatestResult(last'.player)
                        [] last'.op = "getEncryptedSecret" -> getEncryptedSecret(last'.player)
                        [] last'.op = "hasJoined" -> hasJoined(last'.player)
                        [] last'.op = "getRound" -> getRound(last'.player)
                        [] last'.op = "entryFee" -> ENTRY_FEE
                        [] last'.op = "owner" -> Deployer
       /\ (last'.op \notin {"entryFee", "owner"} /\ NeverJoined(last'.player)) =>
            last'.ret = ViewDefault(last'.op)]_vars

C15_Witness ==
  /\ last.op = "getEncryptedSecret"
  /\ hasJoined(last.sender)
  /\ getLatestResult(last.sender) # Sentinel
  /\ last.player # last.sender
  /\ NeverJoined(last.player)
  /\ last.ret = ZeroCiphertext

\* C19: a step in which the client, with a wallet connected and the relayer
\* instance ready, obtains a new encrypted result of a guess while no
\* decryption is running leaves a decryption request in flight for it.
C19_AutoDecryptStarts ==
  [][(/\ ui'.encryptedResult # ui.encryptedResult
      /\ ResultPresent(ui'.encryptedResult)
      /\ ui'.encryptedResult # Sentinel
      /\ address' # NoAddress
      /\ instance = "ready"
      /\ decryptTask.stage = "idle") =>
       /\ decryptTask'.stage = "pending"
       /\ decryptTask'.cipher = ui'.encryptedResult]_vars

Decimal(n) ==
  IF n < 10 THEN <<Digits[n + 1]>> ELSE <<Digits[(n \div 10) + 1], Digits[(n % 10) + 1]>>
EnteredInteger(text) == {n \in 1..20 : text = Decimal(n)}
EnterNumber == "Enter a number between 1 and 20."

\* C20: the client starts encrypting and submitting a guess only when the
\* entered text spells an integer in 1..20, a wallet is connected and the
\* client's hasJoined flag is set, and it submits exactly that integer; a
\* click on Submit Guess with any other text only sets the status message
\* "Enter a number between 1 and 20." and sends no transaction.
C20_GuessOnlyForValidInput ==
  [][/\ (guessTask'.stage = "tx" /\ guessTask.stage # "tx") =>
          /\ EnteredInteger(ui.guessValue) = {guessTask'.n}
          /\ address # NoAddress
          /\ guessTask'.addr = address
          /\ ui.hasJoined
     /\ (last'.op = "submitGuess" /\ <<last, events>>' # <<last, events>>) =>
          /\ guessTask.stage = "tx"
          /\ guessTask.n \in 1..20
          /\ last'.sender = guessTask.addr
          /\ last'.err = Ok => last'.guess = U32(guessTask.n)
     /\ (GuessButtonEnabled /\ handleGuess /\ EnteredInteger(ui.guessValue) = {}) =>
          /\ ui'.statusMessage = EnterNumber
          /\ ~ui'.isGuessing
          /\ UNCHANGED <<guessTask, chain, last>>]_vars

C20_Witness ==
  /\ SucceededAs("submitGuess")
  /\ last.guess = U32(20)
  /\ ui.guessValue = <<"2", "1">>
  /\ ui.statusMessage = EnterNumber
  /\ guessTask.stage = "idle"
  /\ instance = "ready"

\* C22: a successful submitGuess by p leaves every player's secret, joined
\* flag and round, every other player's lastResult, the nonce, the owner
\* and all balances as they were, and adds access grants on p's new
\* lastResult only.
C22_GuessFrame ==
  [][(last'.op = "submitGuess" /\ last'.err = Ok) =>
       LET p == last'.sender
       IN  /\ \A a \in Addresses :
                /\ getEncryptedSecret(a)' = getEncryptedSecret(a)
                /\ hasJoined(a)' = hasJoined(a)
                /\ getRound(a)' = getRound(a)
                /\ a # p => getLatestResult(a)' = getLatestResult(a)
           /\ UNCHANGED <<_nonce, _owner, balanceOf>>
           /\ acl \subseteq acl'
           /\ \A g \in acl' \ acl : g[1] = _players'[p].lastResult.h]_vars

C22_Witness ==
  /\ SucceededAs("submitGuess")
  /\ \E other \in Users : other # last.sender /\ hasJoined(other)
  /\ balanceOf[This] = 2 * ENTRY_FEE
  /\ _nonce = 2
  /\ <<getLatestResult(last.sender).h, last.sender>> \in acl

LastJoinBefore(p, i) ==
  {j \in 1..(i - 1) :
     /\ events[j][1] = "PlayerJoined" /\ events[j][2] = p
     /\ \A k \in (j + 1)..(i - 1) : ~(events[k][1] = "PlayerJoined" /\ events[k][2] = p)}

\* C23: a successful join appends exactly one PlayerJoined(p, r) with r
\* the round of p after the step, a successful guess appends exactly one
\* GuessEvaluated(p, r) with r the round of p, and no other step appends
\* either event; so every GuessEvaluated of p in the log carries a round of
\* at least 1, the round of the latest PlayerJoined of p before it.
C23_EventRounds ==
  /\ [](\A i \in 1..Len(events) :
          events[i][1] = "GuessEvaluated" =>
            /\ events[i][3] >= 1
            /\ \E j \in LastJoinBefore(events[i][2], i) : events[j][3] = events[i][3])
  /\ [][LET p == last'.sender
        IN  IF last'.op = "joinGame" /\ last'.err = Ok
              THEN events' = Append(events, <<"PlayerJoined", p, _rounds'[p]>>)
            ELSE IF last'.op = "submitGuess" /\ last'.err = Ok
              THEN /\ events' = Append(events, <<"GuessEvaluated", p, getRound(p)>>)
                   /\ _rounds'[p] = _rounds[p]
            ELSE \/ events' = events
                 \/ /\ Len(events') = Len(events) + 1
                    /\ events'[Len(events')][1] = "Withdrawal"]_vars

C23_Witness ==
  /\ Len(events) = 3
  /\ events[1] = <<"PlayerJoined", "alice", 1>>
  /\ events[2] = <<"PlayerJoined", "alice", 2>>
  /\ events[3] = <<"GuessEvaluated", "alice", 2>>

GrantsOf(a) ==
  {g \in acl : g[1] # ZeroHandle /\
                 g[1] \in {getEncryptedSecret(a).h, getLatestResult(a).h}}

\* C26: a joinGame or submitGuess call by A, successful or not, leaves the
\* secret, lastResult, joined flag and round of every other identity B,
\* and the grants on B's ciphertexts, as they were.
C26_PlayersIsolated ==
  [][last'.op \in {"joinGame", "submitGuess"} =>
       \A b \in Addresses : b # last'.sender =>
         /\ getEncryptedSecret(b)' = getEncryptedSecret(b)
         /\ getLatestResult(b)' = getLatestResult(b)
         /\ hasJoined(b)' = hasJoined(b)
         /\ getRound(b)' = getRound(b)
         /\ GrantsOf(b)' = GrantsOf(b)]_vars

C26_Witness ==
  /\ SucceededAs("submitGuess")
  /\ \E b \in Users :
       /\ b # last.sender
       /\ hasJoined(b)
       /\ getLatestResult(b) = Sentinel
       /\ getEncryptedSecret(b) = getEncryptedSecret(last.sender)
  /\ getLatestResult(last.sender) # Sentinel

\* C27: for every identity p, hasJoined(p) holds iff getRound(p) >= 1 iff
\* p's secret handle is non-zero, and hasJoined(p) never goes back to false.
C27_JoinedIffRound ==
  /\ [](\A p \in Addresses :
          /\ hasJoined(p) <=> getRound(p) >= 1
          /\ hasJoined(p) <=> getEncryptedSecret(p).h # ZeroHandle)
  /\ [][\A p \in Addresses : hasJoined(p) => hasJoined(p)']_vars

C27_Witness ==
  /\ hasJoined("alice")
  /\ getRound("alice") = 2
  /\ ~hasJoined(Deployer)
  /\ getRound(Deployer) = 0
  /\ last.op = "submitGuess"
  /\ last.sender = Deployer
  /\ last.err = "PlayerNotJoined"

RECURSIVE SumWithdrawn(_)
SumWithdrawn(ev) ==
  IF ev = <<>> THEN 0
  ELSE (IF Head(ev)[1] = "Withdrawal" THEN Head(ev)[3] ELSE 0) + SumWithdrawn(Tail(ev))

RECURSIVE SumRounds(_)
SumRounds(players) ==
  IF players = {} THEN 0
  ELSE LET p == CHOOSE q \in players : TRUE
       IN  _rounds[p] + SumRounds(players \ {p})

\* C28: the contract balance is ENTRY_FEE times the number of successful
\* joins, less the amounts withdrawn, and is never negative; the number of
\* successful joins equals the nonce and the sum of all rounds.
C28_BalanceAccounting ==
  /\ balanceOf[This] = ENTRY_FEE * CountJoined(events) - SumWithdrawn(events)
  /\ balanceOf[This] >= 0
  /\ CountJoined(events) = _nonce
  /\ SumRounds(Addresses) = _nonce

C28_Witness ==
  /\ SucceededAs("withdraw")
  /\ _nonce = 2
  /\ balanceOf[This] = ENTRY_FEE
  /\ SumWithdrawn(events) = ENTRY_FEE

RelayerResponded == \E outcome \in Outcomes : decryptSettled(outcome)

\* C21: while a decryption request is pending, the client can end it on
\* its own, without an answer from the wallet or the relayer: some step
\* other than the settling of the awaited signature or userDecrypt call
\* clears isDecrypting.
C21_DecryptTimesOut ==
  decryptTask.stage = "pending" =>
    ENABLED (ClientNext /\ ~RelayerResponded /\ ~ui'.isDecrypting)

LatestOwnEvent(p) ==
  LET mine == {i \in 1..Len(events) :
                 events[i][1] \in {"PlayerJoined", "GuessEvaluated"} /\ events[i][2] = p}
  IN  IF mine = {} THEN "none"
      ELSE events[CHOOSE i \in mine : \A j \in mine : j <= i][1]
NoGuessSinceJoin(p) == LatestOwnEvent(p) # "GuessEvaluated"

\* C24: when the connected player has made no guess since their latest
\* join and the client has refreshed (no refresh in flight, encryptedResult
\* equal to the contract's getLatestResult), the client holds no result:
\* the card shows 'No guess submitted yet.' and the decrypt button is
\* disabled.
C24_NoResultBeforeGuess ==
  (/\ address # NoAddress
   /\ NoGuessSinceJoin(address)
   /\ refreshes = {}
   /\ ui.encryptedResult = getLatestResult(address)) =>
    /\ ~ResultPresent(ui.encryptedResult)
    /\ ~DecryptButtonEnabled

\* C29: every player whose getLatestResult is a non-zero handle is allowed
\* on that handle.
C29_PlayerAllowedOnResult ==
  \A p \in Users :
    getLatestResult(p).h # ZeroHandle => FHE_isAllowed(acl, getLatestResult(p), p)

\* C30: with a wallet connected, the player joined and no refresh in
\* flight, a feedback code on display is the decryption of the result the
\* client holds: feedbackCode non-null implies lastDecryptedCipher equals
\* encryptedResult.
C30_FeedbackMatchesResult ==
  (/\ address # NoAddress
   /\ ui.hasJoined
   /\ refreshes = {}
   /\ ui.feedbackCode # NullCode) =>
    ui.lastDecryptedCipher = ui.encryptedResult

\* C25: each busy flag is set exactly while its operation is running, so
\* it is cleared when the operation ends; a join or guess that ends at the
\* transaction stage without success, and a decryption that ends without
\* a feedback code, leave their flag cleared and an error status message.
C25_BusyFlagsCleared ==
  /\ [](/\ ui.isJoining <=> joinTask.stage # "idle"
        /\ ui.isGuessing <=> guessTask.stage # "idle"
        /\ ui.isDecrypting <=> decryptTask.stage # "idle")
  /\ [][/\ (joinTask.stage = "tx" /\ joinTask'.stage = "idle") =>
             ~ui'.isJoining /\ ui'.statusMessage = ErrorMessage
        /\ (guessTask.stage = "tx" /\ guessTask'.stage = "idle") =>
             ~ui'.isGuessing /\ ui'.statusMessage = ErrorMessage
        /\ (decryptTask.stage = "pending" /\ decryptTask'.stage = "idle") =>
             /\ ~ui'.isDecrypting
             /\ \/ ui'.statusMessage \in {ErrorMessage, "No decrypted value returned"}
                \/ /\ ui'.feedbackCode # NullCode
                   /\ ui'.lastDecryptedCipher = decryptTask.cipher]_vars

C25_Witness ==
  /\ ui.statusMessage = ErrorMessage
  /\ ~ui.isJoining /\ ~ui.isGuessing /\ ~ui.isDecrypting
  /\ joinTask.stage = "idle" /\ guessTask.stage = "idle" /\ decryptTask.stage = "idle"
  /\ ResultPresent(ui.encryptedResult)
  /\ ui.encryptedResult # Sentinel
  /\ ui.feedbackCode = NullCode
  /\ Len(events) = 2

\* C32: the joined flag, round and encrypted result held by the client
\* belong to the connected address: while no wallet is connected they are
\* false, 0 and none (null or the zero handle), and the completion of a refresh that was started for
\* an address other than the connected one changes none of them.
C32_StateOfCurrentAddress ==
  /\ [](address = NoAddress =>
          /\ ~ui.hasJoined
          /\ ui.round = 0
          /\ ~ResultPresent(ui.encryptedResult))
  /\ [][\A task \in refreshes :
          (task \notin refreshes' /\ task.addr # address') =>
            /\ ui'.hasJoined = ui.hasJoined
            /\ ui'.round = ui.round
            /\ ResultPresent(ui'.encryptedResult) => ui'.encryptedResult = ui.encryptedResult]_vars

\* C31: at most one decryption request is in flight: no second request is
\* started while one is pending, whichever render the invoked callback was
\* created in.
C31_SingleDecryptInFlight ==
  ~(decryptTask.stage = "pending" /\ overlapTask.stage = "pending")

====
